---- MODULE Spec2Model ----
(***************************************************************************)
(* A model of the seq-data-file crate: a file made of a magic, a fixed     *)
(* size header and a stream of length-prefixed chunks, with its writer,    *)
(* its sequential reader and its seekable reader, in their blocking        *)
(* (src/src/lib.rs) and async (src/src/nonblocking/mod.rs) variants.       *)
(*                                                                         *)
(* One file path is modelled.  A handle is a record; the byte stream a     *)
(* handle reads is the part of the file after the handle's position.       *)
(***************************************************************************)
EXTENDS Integers, Sequences, FiniteSets, TLC

(***************************************************************************)
(* Bounds of the exploration.                                              *)
(***************************************************************************)
MaxByte == 1
MaxPayloadLen == 1
MaxChunks == 2
MaxTruncs == 1
MaxSched == 1
\* The largest buffer passed to optional_read_exact on a stream of its own,
\* which is also the longest such stream, and the longest schedule of what
\* its reads do.
MaxRead == 3
MaxEvents == 2

(***************************************************************************)
(* Program constants.                                                      *)
(***************************************************************************)
MAGIC_READ_BUF_SIZE == 16
PrefixLength == 4

(***************************************************************************)
(* Input domains.                                                          *)
(***************************************************************************)
Bytes == 0..MaxByte

RECURSIVE SeqsUpTo(_, _)
SeqsUpTo(S, n) ==
    IF n = 0 THEN {<<>>}
    ELSE LET shorter == SeqsUpTo(S, n - 1)
         IN  shorter \cup {Append(s, x) : s \in {t \in shorter : Len(t) = n - 1}, x \in S}

Payloads == SeqsUpTo(Bytes, MaxPayloadLen)

\* The blocking implementation and its async twin.
Variants == {"blocking", "async"}

\* Implementations of the SeqDataFormat trait: H of the example (no magic,
\* no header), a one-byte magic, a magic that extends it, and a magic one
\* byte longer than the 16-byte magic read buffer.
LongMagic == [i \in 1..(MAGIC_READ_BUF_SIZE + 1) |-> 2]

H == [MAGIC |-> <<>>, HEADER_SIZE |-> 0]
FmtShort == [MAGIC |-> <<1>>, HEADER_SIZE |-> 1]
FmtExt == [MAGIC |-> <<1, 0>>, HEADER_SIZE |-> 1]
FmtLong == [MAGIC |-> LongMagic, HEADER_SIZE |-> 1]

SeqDataFormat == {H, FmtShort, FmtExt, FmtLong}

\* The formats of the programs that go on to read: one of each shape.
UseFormats == {H, FmtExt, FmtLong}

\* Headers a caller may pass: every length up to one more than any
\* HEADER_SIZE, so that wrong sizes are passed too.
HeaderInputs == SeqsUpTo(Bytes, 1) \cup {<<0, 0>>}

\* How the reads of one call may come back short: the i-th read returns at
\* most Schedules[i] bytes; past the end of the schedule a read returns all
\* it was asked for.
Schedules == SeqsUpTo({1}, MaxSched)

(***************************************************************************)
(* Helpers on byte sequences.                                              *)
(***************************************************************************)
Min(a, b) == IF a < b THEN a ELSE b
Max(a, b) == IF a > b THEN a ELSE b
Take(s, n) == SubSeq(s, 1, Min(n, Len(s)))
Drop(s, n) == SubSeq(s, n + 1, Len(s))
IsPrefix(s, t) == Len(s) <= Len(t) /\ SubSeq(t, 1, Len(s)) = s

\* u32::to_le_bytes and u32::from_le_bytes
to_le_bytes(n) ==
    << n % 256, (n \div 256) % 256, (n \div 65536) % 256, (n \div 16777216) % 256 >>
from_le_bytes(b) == b[1] + 256 * b[2] + 65536 * b[3] + 16777216 * b[4]

\* One read of up to n bytes from a stream holding avail bytes: the number of
\* bytes returned.  0 only at end of stream (or for n = 0).
read(avail, n, sched) ==
    IF sched = <<>> THEN Min(n, avail) ELSE Min(Min(n, avail), Head(sched))
rest(sched) == IF sched = <<>> THEN <<>> ELSE Tail(sched)

\* Read::read_exact (std default_read_exact, tokio read_exact): loops until n
\* bytes are read; a read of 0 bytes is UnexpectedEof.  The bytes read
\* before the failure are consumed.  want is what is left to read, used
\* what was read.
RECURSIVE read_exact_loop(_, _, _, _)
read_exact_step(stream, want, used, sched, k) ==
    IF k = 0 THEN [want |-> want, used |-> used]
    ELSE read_exact_loop(Drop(stream, k), want - k, used + k, rest(sched))

read_exact_loop(stream, want, used, sched) ==
    IF want = 0 THEN [want |-> 0, used |-> used]
    ELSE read_exact_step(stream, want, used, sched, read(Len(stream), want, sched))

read_exact_done(stream, l) ==
    IF l.want = 0 THEN [res |-> "Ok", data |-> Take(stream, l.used), used |-> l.used]
    ELSE [res |-> "Err", data |-> <<>>, used |-> l.used]

read_exact(stream, n, sched) == read_exact_done(stream, read_exact_loop(stream, n, 0, sched))

\* What a read of the schedule of a call may do instead of returning bytes:
\* fail with ErrorKind::Interrupted, or fail with another error.  The other
\* entries of a schedule, 1 and more, are the most bytes the read returns.
Interrupted == 0
OtherError == -1

\* optional_read_exact of lib.rs: the loop, then the results; None when
\* the stream ends before any byte.  An Interrupted read is made again, any
\* other error is returned at once.
RECURSIVE optional_read_exact_loop(_, _, _, _)
optional_read_exact_step(stream, want, read_bytes, sched, n) ==
    IF n = 0 THEN [want |-> want, read_bytes |-> read_bytes, err |-> ""]
    ELSE optional_read_exact_loop(Drop(stream, n), want - n, read_bytes + n, rest(sched))

\* The loop with an Interrupted read taken for the end of the stream.
optional_read_exact_loop_intr_eof(stream, want, read_bytes, sched) ==
    IF want = 0 THEN [want |-> 0, read_bytes |-> read_bytes, err |-> ""]
    ELSE IF sched # <<>> /\ Head(sched) = Interrupted
    THEN [want |-> want, read_bytes |-> read_bytes, err |-> ""]
    ELSE IF sched # <<>> /\ Head(sched) = OtherError
    THEN [want |-> want, read_bytes |-> read_bytes, err |-> "io"]
    ELSE optional_read_exact_step(stream, want, read_bytes, sched,
             read(Len(stream), want, sched))

optional_read_exact_loop(stream, want, read_bytes, sched) ==
    IF want = 0 THEN [want |-> 0, read_bytes |-> read_bytes, err |-> ""]
    ELSE IF sched # <<>> /\ Head(sched) = Interrupted
    THEN optional_read_exact_loop(stream, want, read_bytes, Tail(sched))
    ELSE IF sched # <<>> /\ Head(sched) = OtherError
    THEN [want |-> want, read_bytes |-> read_bytes, err |-> "io"]
    ELSE optional_read_exact_step(stream, want, read_bytes, sched,
             read(Len(stream), want, sched))

\* A partly filled buffer reported as the end of the stream.
optional_read_exact_partial_none(stream, l) ==
    IF l.err # "" THEN [res |-> "Err", err |-> l.err, data |-> <<>>, used |-> l.read_bytes]
    ELSE IF l.want # 0 THEN [res |-> "None", err |-> "", data |-> <<>>, used |-> l.read_bytes]
    ELSE [res |-> "Ok", err |-> "", data |-> Take(stream, l.read_bytes), used |-> l.read_bytes]

\* The end of the stream reported as an error, as read_exact does.
optional_read_exact_eof_err(stream, l) ==
    IF l.err # "" THEN [res |-> "Err", err |-> l.err, data |-> <<>>, used |-> l.read_bytes]
    ELSE IF l.want # 0
    THEN [res |-> "Err", err |-> "eof", data |-> <<>>, used |-> l.read_bytes]
    ELSE [res |-> "Ok", err |-> "", data |-> Take(stream, l.read_bytes), used |-> l.read_bytes]

optional_read_exact_done(stream, l) ==
    IF l.err # "" THEN [res |-> "Err", err |-> l.err, data |-> <<>>, used |-> l.read_bytes]
    ELSE IF l.read_bytes = 0 THEN [res |-> "None", err |-> "", data |-> <<>>, used |-> 0]
    ELSE IF l.want # 0
    THEN [res |-> "Err", err |-> "eof", data |-> <<>>, used |-> l.read_bytes]
    ELSE [res |-> "Ok", err |-> "", data |-> Take(stream, l.read_bytes), used |-> l.read_bytes]

optional_read_exact(stream, n, sched) ==
    optional_read_exact_done(stream, optional_read_exact_loop(stream, n, 0, sched))

\* optional_read_exact of nonblocking/mod.rs
RECURSIVE nb_optional_read_exact_loop(_, _, _, _)
nb_optional_read_exact_step(stream, want, read_bytes, sched, n) ==
    IF n = 0 THEN [want |-> want, read_bytes |-> read_bytes, err |-> ""]
    ELSE nb_optional_read_exact_loop(Drop(stream, n), want - n, read_bytes + n, rest(sched))

nb_optional_read_exact_loop(stream, want, read_bytes, sched) ==
    IF want = 0 THEN [want |-> 0, read_bytes |-> read_bytes, err |-> ""]
    ELSE IF sched # <<>> /\ Head(sched) = Interrupted
    THEN nb_optional_read_exact_loop(stream, want, read_bytes, Tail(sched))
    ELSE IF sched # <<>> /\ Head(sched) = OtherError
    THEN [want |-> want, read_bytes |-> read_bytes, err |-> "io"]
    ELSE nb_optional_read_exact_step(stream, want, read_bytes, sched,
             read(Len(stream), want, sched))

nb_optional_read_exact_done(stream, l) ==
    IF l.err # "" THEN [res |-> "Err", err |-> l.err, data |-> <<>>, used |-> l.read_bytes]
    ELSE IF l.read_bytes = 0 THEN [res |-> "None", err |-> "", data |-> <<>>, used |-> 0]
    ELSE IF l.want # 0
    THEN [res |-> "Err", err |-> "eof", data |-> <<>>, used |-> l.read_bytes]
    ELSE [res |-> "Ok", err |-> "", data |-> Take(stream, l.read_bytes), used |-> l.read_bytes]

nb_optional_read_exact(stream, n, sched) ==
    nb_optional_read_exact_done(stream, nb_optional_read_exact_loop(stream, n, 0, sched))

\* optional_read_exact of ioutils.rs
RECURSIVE ioutils_optional_read_exact_loop(_, _, _, _)
ioutils_optional_read_exact_step(stream, want, read_bytes, sched, n) ==
    IF n = 0 THEN [want |-> want, read_bytes |-> read_bytes, err |-> ""]
    ELSE ioutils_optional_read_exact_loop(Drop(stream, n), want - n, read_bytes + n, rest(sched))

ioutils_optional_read_exact_loop(stream, want, read_bytes, sched) ==
    IF want = 0 THEN [want |-> 0, read_bytes |-> read_bytes, err |-> ""]
    ELSE IF sched # <<>> /\ Head(sched) = Interrupted
    THEN ioutils_optional_read_exact_loop(stream, want, read_bytes, Tail(sched))
    ELSE IF sched # <<>> /\ Head(sched) = OtherError
    THEN [want |-> want, read_bytes |-> read_bytes, err |-> "io"]
    ELSE ioutils_optional_read_exact_step(stream, want, read_bytes, sched,
             read(Len(stream), want, sched))

ioutils_optional_read_exact_done(stream, l) ==
    IF l.err # "" THEN [res |-> "Err", err |-> l.err, data |-> <<>>, used |-> l.read_bytes]
    ELSE IF l.read_bytes = 0 THEN [res |-> "None", err |-> "", data |-> <<>>, used |-> 0]
    ELSE IF l.want # 0
    THEN [res |-> "Err", err |-> "eof", data |-> <<>>, used |-> l.read_bytes]
    ELSE [res |-> "Ok", err |-> "", data |-> Take(stream, l.read_bytes), used |-> l.read_bytes]

ioutils_optional_read_exact(stream, n, sched) ==
    ioutils_optional_read_exact_done(stream, ioutils_optional_read_exact_loop(stream, n, 0, sched))

(***************************************************************************)
(* Opening: the length check and the magic and header validation.          *)
(***************************************************************************)
\* get_file_length that returns the total length of the file.
get_file_length_total(F, total_len) ==
    IF total_len < Len(F.MAGIC) + F.HEADER_SIZE
    THEN [res |-> "Err", err |-> "short", len |-> 0]
    ELSE [res |-> "Ok", err |-> "", len |-> total_len]

\* get_file_length of lib.rs: the payload-domain length, or an error when
\* the file cannot hold the magic and the header.
get_file_length(F, total_len) ==
    LET minimum_size == Len(F.MAGIC) + F.HEADER_SIZE
    IN  IF total_len < minimum_size
        THEN [res |-> "Err", err |-> "short", len |-> 0]
        ELSE [res |-> "Ok", err |-> "", len |-> total_len - minimum_size]

\* get_file_length of nonblocking/mod.rs
nb_get_file_length(F, total_len) ==
    LET minimum_size == Len(F.MAGIC) + F.HEADER_SIZE
    IN  IF total_len < minimum_size
        THEN [res |-> "Err", err |-> "short", len |-> 0]
        ELSE [res |-> "Ok", err |-> "", len |-> total_len - minimum_size]

\* read_magic_and_header of lib.rs.  magic_slice is the magic not matched
\* yet; every read asks for sz = min(len(MAGIC), 16) bytes, whatever is left
\* of magic_slice; magic_slice[0..rd] panics when rd > len(magic_slice).
\* used is the number of bytes consumed from the stream.
read_header(used, h) ==
    IF h.res = "Ok"
    THEN [res |-> "Ok", err |-> "", header |-> h.data, used |-> used + h.used]
    ELSE [res |-> "Err", err |-> "eof", header |-> <<>>, used |-> used + h.used]

RECURSIVE read_magic_and_header_loop(_, _, _, _, _)
read_magic_step(F, magic_slice, stream, used, sched, rd) ==
    IF rd = 0
    THEN [res |-> "Err", err |-> "eof", header |-> <<>>, used |-> used]
    ELSE IF rd > Len(magic_slice)
    THEN [res |-> "Panic", err |-> "index", header |-> <<>>, used |-> used + rd]
    ELSE IF SubSeq(magic_slice, 1, rd) # SubSeq(stream, 1, rd)
    THEN [res |-> "Err", err |-> "magic", header |-> <<>>, used |-> used + rd]
    ELSE read_magic_and_header_loop(F, Drop(magic_slice, rd), Drop(stream, rd),
                                    used + rd, rest(sched))

read_magic_and_header_loop(F, magic_slice, stream, used, sched) ==
    IF magic_slice = <<>>
    THEN read_header(used, read_exact(stream, F.HEADER_SIZE, sched))
    ELSE read_magic_step(F, magic_slice, stream, used, sched,
                         read(Len(stream), Min(Len(F.MAGIC), MAGIC_READ_BUF_SIZE), sched))

\* The magic skipped over without being compared.
read_magic_and_header_unchecked(F, stream, sched) ==
    read_header(Len(F.MAGIC), read_exact(Drop(stream, Len(F.MAGIC)), F.HEADER_SIZE, sched))

read_magic_and_header(F, stream, sched) ==
    read_magic_and_header_loop(F, F.MAGIC, stream, 0, sched)

\* read_magic_and_header of nonblocking/mod.rs
nb_read_header(used, h) ==
    IF h.res = "Ok"
    THEN [res |-> "Ok", err |-> "", header |-> h.data, used |-> used + h.used]
    ELSE [res |-> "Err", err |-> "eof", header |-> <<>>, used |-> used + h.used]

RECURSIVE nb_read_magic_and_header_loop(_, _, _, _, _)
nb_read_magic_step(F, magic_slice, stream, used, sched, rd) ==
    IF rd = 0
    THEN [res |-> "Err", err |-> "eof", header |-> <<>>, used |-> used]
    ELSE IF rd > Len(magic_slice)
    THEN [res |-> "Panic", err |-> "index", header |-> <<>>, used |-> used + rd]
    ELSE IF SubSeq(magic_slice, 1, rd) # SubSeq(stream, 1, rd)
    THEN [res |-> "Err", err |-> "magic", header |-> <<>>, used |-> used + rd]
    ELSE nb_read_magic_and_header_loop(F, Drop(magic_slice, rd), Drop(stream, rd),
                                       used + rd, rest(sched))

nb_read_magic_and_header_loop(F, magic_slice, stream, used, sched) ==
    IF magic_slice = <<>>
    THEN nb_read_header(used, read_exact(stream, F.HEADER_SIZE, sched))
    ELSE nb_read_magic_step(F, magic_slice, stream, used, sched,
                            read(Len(stream), Min(Len(F.MAGIC), MAGIC_READ_BUF_SIZE), sched))

nb_read_magic_and_header(F, stream, sched) ==
    nb_read_magic_and_header_loop(F, F.MAGIC, stream, 0, sched)

(***************************************************************************)
(* The chunk codec.                                                        *)
(***************************************************************************)
\* A length prefix written big endian.
append_be(data) ==
    LET b == to_le_bytes(Len(data)) IN <<b[4], b[3], b[2], b[1]>> \o data

\* The length written as the usize it is, 8 bytes, without the cast to u32.
append_usize(data) == to_le_bytes(Len(data)) \o <<0, 0, 0, 0>> \o data

\* The bytes SeqDataWriter::append of lib.rs writes: the length as u32,
\* little endian, then the data.  The assert on data.len() makes the cast
\* to u32 keep the value.
append(data) == to_le_bytes(Len(data)) \o data

\* A chunk written with a two-byte length prefix.
write_chunk_u16(data) == Take(to_le_bytes(Len(data)), 2) \o data

\* write_chunk of nonblocking/mod.rs
write_chunk(data) == to_le_bytes(Len(data)) \o data

\* read_chunk of nonblocking/mod.rs: None at a clean end of stream.  The
\* three steps are the length prefix, the payload, the result.
read_chunk_out(out) ==
    IF out.res = "Err"
    THEN [res |-> "Err", err |-> "eof", data |-> <<>>, used |-> PrefixLength + out.used]
    ELSE [res |-> "Ok", err |-> "", data |-> out.data, used |-> PrefixLength + out.used]

read_chunk_len(stream, l) ==
    IF l.res = "None" THEN [res |-> "None", err |-> "", data |-> <<>>, used |-> 0]
    ELSE IF l.res = "Err"
    THEN [res |-> "Err", err |-> "eof", data |-> <<>>, used |-> l.used]
    ELSE read_chunk_out(read_exact(Drop(stream, PrefixLength), from_le_bytes(l.data), <<>>))

read_chunk(stream) ==
    read_chunk_len(stream, nb_optional_read_exact(stream, PrefixLength, <<>>))

\* The decoding inside SeqDataReader::next of lib.rs.
next_chunk_out(out) ==
    IF out.res = "Err"
    THEN [res |-> "Err", err |-> "eof", data |-> <<>>, used |-> 4 + out.used]
    ELSE [res |-> "Ok", err |-> "", data |-> out.data, used |-> 4 + out.used]

next_chunk_len(stream, l) ==
    IF l.res = "None" THEN [res |-> "None", err |-> "", data |-> <<>>, used |-> 0]
    ELSE IF l.res = "Err"
    THEN [res |-> "Err", err |-> "eof", data |-> <<>>, used |-> l.used]
    ELSE next_chunk_out(read_exact(Drop(stream, 4), from_le_bytes(l.data), <<>>))

next_chunk(stream) == next_chunk_len(stream, optional_read_exact(stream, 4, <<>>))

\* Read::read_exact over reads that may fail: an Interrupted read is made
\* again, any other error is returned at once, a read of 0 bytes is
\* UnexpectedEof.  The bytes read before the failure are consumed.
RECURSIVE read_exact_io_loop(_, _, _, _)
read_exact_io_step(stream, want, used, sched, k) ==
    IF k = 0 THEN [want |-> want, used |-> used, err |-> "eof"]
    ELSE read_exact_io_loop(Drop(stream, k), want - k, used + k, rest(sched))

read_exact_io_loop(stream, want, used, sched) ==
    IF want = 0 THEN [want |-> 0, used |-> used, err |-> ""]
    ELSE IF sched # <<>> /\ Head(sched) = Interrupted
    THEN read_exact_io_loop(stream, want, used, Tail(sched))
    ELSE IF sched # <<>> /\ Head(sched) = OtherError
    THEN [want |-> want, used |-> used, err |-> "io"]
    ELSE read_exact_io_step(stream, want, used, sched, read(Len(stream), want, sched))

read_exact_io_done(stream, l) ==
    IF l.err = "" THEN [res |-> "Ok", err |-> "", data |-> Take(stream, l.used), used |-> l.used]
    ELSE [res |-> "Err", err |-> l.err, data |-> <<>>, used |-> l.used]

read_exact_io(stream, n, sched) ==
    read_exact_io_done(stream, read_exact_io_loop(stream, n, 0, sched))

\* The decoding inside SeqDataReader::next of lib.rs over reads that may
\* fail: ps is what the reads of the length prefix do, ds what the reads of
\* the payload do.  An error is returned as it is; used is what the call
\* consumed from the BufReader before it returned.
next_chunk_io_out(out) ==
    IF out.res = "Err"
    THEN [res |-> "Err", err |-> out.err, data |-> <<>>, used |-> 4 + out.used]
    ELSE [res |-> "Ok", err |-> "", data |-> out.data, used |-> 4 + out.used]

next_chunk_io_len(stream, l, ds) ==
    IF l.res = "None" THEN [res |-> "None", err |-> "", data |-> <<>>, used |-> 0]
    ELSE IF l.res = "Err"
    THEN [res |-> "Err", err |-> l.err, data |-> <<>>, used |-> l.used]
    ELSE next_chunk_io_out(read_exact_io(Drop(stream, 4), from_le_bytes(l.data), ds))

next_chunk_io(stream, ps, ds) ==
    next_chunk_io_len(stream, optional_read_exact(stream, 4, ps), ds)

\* read_chunk of nonblocking/mod.rs over reads that may fail.
read_chunk_io_out(out) ==
    IF out.res = "Err"
    THEN [res |-> "Err", err |-> out.err, data |-> <<>>, used |-> PrefixLength + out.used]
    ELSE [res |-> "Ok", err |-> "", data |-> out.data, used |-> PrefixLength + out.used]

read_chunk_io_len(stream, l, ds) ==
    IF l.res = "None" THEN [res |-> "None", err |-> "", data |-> <<>>, used |-> 0]
    ELSE IF l.res = "Err"
    THEN [res |-> "Err", err |-> l.err, data |-> <<>>, used |-> l.used]
    ELSE read_chunk_io_out(read_exact_io(Drop(stream, PrefixLength), from_le_bytes(l.data), ds))

read_chunk_io(stream, ps, ds) ==
    read_chunk_io_len(stream, nb_optional_read_exact(stream, PrefixLength, ps), ds)

\* The decoding of SeqDataReaderSeek::next of lib.rs: read_exact for the
\* length too, so a clean end of stream is an error.
seek_chunk_out(out) ==
    IF out.res = "Err"
    THEN [res |-> "Err", err |-> "eof", data |-> <<>>, used |-> 4 + out.used]
    ELSE [res |-> "Ok", err |-> "", data |-> out.data, used |-> 4 + out.used]

seek_chunk_len(stream, l) ==
    IF l.res = "Err"
    THEN [res |-> "Err", err |-> "eof", data |-> <<>>, used |-> l.used]
    ELSE seek_chunk_out(read_exact(Drop(stream, 4), from_le_bytes(l.data), <<>>))

seek_chunk(stream) == seek_chunk_len(stream, read_exact(stream, 4, <<>>))

\* SeqDataReaderSeek::next of nonblocking/mod.rs: read_chunk(..).unwrap(),
\* which panics on None.
unwrap(c) ==
    IF c.res = "None" THEN [res |-> "Panic", err |-> "unwrap", data |-> <<>>, used |-> 0]
    ELSE c

nb_seek_chunk(stream) == unwrap(read_chunk(stream))

\* A handle made by open without append(true): its writes land where the
\* reads of open left the cursor, right after the header.
write_all_at_cursor(h, bytes, buf) ==
    IF h.how = "open"
    THEN Take(bytes, Len(h.F.MAGIC) + h.F.HEADER_SIZE) \o buf
             \o Drop(bytes, Len(h.F.MAGIC) + h.F.HEADER_SIZE + Len(buf))
    ELSE bytes \o buf

\* File::write_all through a writer handle: create and open both set
\* append(true), so the bytes land at the end of the file wherever the
\* reads of open left the cursor.
write_all(h, bytes, buf) == bytes \o buf

\* A cut that keeps one byte more than asked.
set_len_one_more(bytes, len) ==
    IF len < Len(bytes) THEN SubSeq(bytes, 1, len + 1)
    ELSE bytes \o [i \in 1..(len - Len(bytes)) |-> 0]

\* File::set_len: cut, or extend with zero bytes.
set_len(bytes, len) ==
    IF len <= Len(bytes) THEN SubSeq(bytes, 1, len)
    ELSE bytes \o [i \in 1..(len - Len(bytes)) |-> 0]


(***************************************************************************)
(* The operations, as functions of the file and of the handle.             *)
(***************************************************************************)
\* A create that opens the file before it checks the header size.
SeqDataWriter_create_open_first(F, d, header) ==
    IF d.exists
    THEN [res |-> "Err", err |-> "exists", exists |-> TRUE, bytes |-> d.bytes]
    ELSE IF F.HEADER_SIZE # Len(header)
    THEN [res |-> "Err", err |-> "size", exists |-> TRUE, bytes |-> <<>>]
    ELSE [res |-> "Ok", err |-> "", exists |-> TRUE, bytes |-> F.MAGIC \o header]

\* A create with create(true) and truncate(true) in place of create_new(true).
SeqDataWriter_create_truncate(F, d, header) ==
    IF F.HEADER_SIZE # Len(header)
    THEN [res |-> "Err", err |-> "size", exists |-> d.exists, bytes |-> d.bytes]
    ELSE [res |-> "Ok", err |-> "", exists |-> TRUE, bytes |-> F.MAGIC \o header]

\* SeqDataWriter::create of lib.rs: the header size check, then the
\* exclusive create, then the magic and the header are written.  The result
\* and the path afterwards (exists, bytes).
SeqDataWriter_create(F, d, header) ==
    IF F.HEADER_SIZE # Len(header)
    THEN [res |-> "Err", err |-> "size", exists |-> d.exists, bytes |-> d.bytes]
    ELSE IF d.exists
    THEN [res |-> "Err", err |-> "exists", exists |-> TRUE, bytes |-> d.bytes]
    ELSE [res |-> "Ok", err |-> "", exists |-> TRUE, bytes |-> F.MAGIC \o header]

\* SeqDataWriter::create of nonblocking/mod.rs
nb_SeqDataWriter_create(F, d, header) ==
    IF F.HEADER_SIZE # Len(header)
    THEN [res |-> "Err", err |-> "size", exists |-> d.exists, bytes |-> d.bytes]
    ELSE IF d.exists
    THEN [res |-> "Err", err |-> "exists", exists |-> TRUE, bytes |-> d.bytes]
    ELSE [res |-> "Ok", err |-> "", exists |-> TRUE, bytes |-> F.MAGIC \o header]

\* SeqDataWriter::open of lib.rs: the header parameter is shadowed by the
\* header read from the file, which is what is returned.
SeqDataWriter_open(F, d, header, sched) ==
    IF F.HEADER_SIZE # Len(header)
    THEN [res |-> "Err", err |-> "size", header |-> <<>>, used |-> 0]
    ELSE IF ~d.exists THEN [res |-> "Err", err |-> "notfound", header |-> <<>>, used |-> 0]
    ELSE read_magic_and_header(F, d.bytes, sched)

\* SeqDataWriter::open of nonblocking/mod.rs
nb_SeqDataWriter_open(F, d, header, sched) ==
    IF F.HEADER_SIZE # Len(header)
    THEN [res |-> "Err", err |-> "size", header |-> <<>>, used |-> 0]
    ELSE IF ~d.exists THEN [res |-> "Err", err |-> "notfound", header |-> <<>>, used |-> 0]
    ELSE nb_read_magic_and_header(F, d.bytes, sched)

\* SeqDataReader::open and SeqDataReaderSeek::open of lib.rs share their
\* validation: File::open, get_file_length, read_magic_and_header.  len is
\* the payload-domain length, used the file position after the header.
reader_open_header(l, m) ==
    [res |-> m.res, err |-> m.err, header |-> m.header, used |-> m.used, len |-> l.len]

reader_open_len(F, d, sched, l) ==
    IF l.res = "Err"
    THEN [res |-> "Err", err |-> l.err, header |-> <<>>, used |-> 0, len |-> 0]
    ELSE reader_open_header(l, read_magic_and_header(F, d.bytes, sched))

reader_open(F, d, sched) ==
    IF ~d.exists
    THEN [res |-> "Err", err |-> "notfound", header |-> <<>>, used |-> 0, len |-> 0]
    ELSE reader_open_len(F, d, sched, get_file_length(F, Len(d.bytes)))

\* the same for nonblocking/mod.rs
nb_reader_open_header(l, m) ==
    [res |-> m.res, err |-> m.err, header |-> m.header, used |-> m.used, len |-> l.len]

nb_reader_open_len(F, d, sched, l) ==
    IF l.res = "Err"
    THEN [res |-> "Err", err |-> l.err, header |-> <<>>, used |-> 0, len |-> 0]
    ELSE nb_reader_open_header(l, nb_read_magic_and_header(F, d.bytes, sched))

nb_reader_open(F, d, sched) ==
    IF ~d.exists
    THEN [res |-> "Err", err |-> "notfound", header |-> <<>>, used |-> 0, len |-> 0]
    ELSE nb_reader_open_len(F, d, sched, nb_get_file_length(F, Len(d.bytes)))

\* The bytes a BufReader handle can still deliver: its buffer, then the
\* file from the position of the underlying file handle.
stream_of(h, bytes) == h.buf \o Drop(bytes, h.fpos)

\* The BufReader after a call that used `used` bytes: the buffer was
\* refilled from the file (the whole rest of it, much less than the
\* capacity of 1 MiB) when a read found it empty.
after_read(h, bytes, c) ==
    IF c.res # "Ok" \/ c.used > Len(h.buf)
    THEN [h EXCEPT !.buf = Drop(stream_of(h, bytes), c.used),
                   !.fpos = Max(h.fpos, Len(bytes))]
    ELSE [h EXCEPT !.buf = Drop(h.buf, c.used)]

\* A next that advances pos by the length of the payload only.
SeqDataReader_next_chunk_no_prefix(h, g, c) ==
    IF c.res = "Ok"
    THEN [res |-> "Ok", err |-> "", off |-> h.pos, data |-> c.data,
          h |-> [g EXCEPT !.pos = h.pos + Len(c.data)]]
    ELSE [res |-> c.res, err |-> c.err, off |-> 0, data |-> <<>>, h |-> g]

\* SeqDataReader::next of lib.rs: the result and the handle afterwards.
SeqDataReader_next_chunk(h, g, c) ==
    IF c.res = "Ok"
    THEN [res |-> "Ok", err |-> "", off |-> h.pos, data |-> c.data,
          h |-> [g EXCEPT !.pos = h.pos + 4 + Len(c.data)]]
    ELSE [res |-> c.res, err |-> c.err, off |-> 0, data |-> <<>>, h |-> g]

SeqDataReader_next_read(h, bytes, c) == SeqDataReader_next_chunk(h, after_read(h, bytes, c), c)

SeqDataReader_next(h, bytes) == SeqDataReader_next_read(h, bytes, next_chunk(stream_of(h, bytes)))

\* SeqDataReader::next of nonblocking/mod.rs
nb_SeqDataReader_next_chunk(h, g, c) ==
    IF c.res = "Ok"
    THEN [res |-> "Ok", err |-> "", off |-> h.pos, data |-> c.data,
          h |-> [g EXCEPT !.pos = h.pos + PrefixLength + Len(c.data)]]
    ELSE [res |-> c.res, err |-> c.err, off |-> 0, data |-> <<>>, h |-> g]

nb_SeqDataReader_next_read(h, bytes, c) ==
    nb_SeqDataReader_next_chunk(h, after_read(h, bytes, c), c)

nb_SeqDataReader_next(h, bytes) ==
    nb_SeqDataReader_next_read(h, bytes, read_chunk(stream_of(h, bytes)))

\* SeqDataReader::next of both modules over reads that may fail: pos moves
\* only when a chunk is returned, what the call consumed stays consumed.
SeqDataReader_next_io(h, bytes, ps, ds) ==
    SeqDataReader_next_read(h, bytes, next_chunk_io(stream_of(h, bytes), ps, ds))

nb_SeqDataReader_next_io(h, bytes, ps, ds) ==
    nb_SeqDataReader_next_read(h, bytes, read_chunk_io(stream_of(h, bytes), ps, ds))

\* SeqDataReaderSeek::next of lib.rs, from the handle's file position.
seek_result(h, c) ==
    [res |-> c.res, err |-> c.err, data |-> c.data, h |-> [h EXCEPT !.hpos = h.hpos + c.used]]

SeqDataReaderSeek_next(h, bytes) == seek_result(h, seek_chunk(Drop(bytes, h.hpos)))

\* SeqDataReaderSeek::next of nonblocking/mod.rs
nb_SeqDataReaderSeek_next(h, bytes) == seek_result(h, nb_seek_chunk(Drop(bytes, h.hpos)))

\* next_at that lets pos = len through.
next_at_off_by_one(h, bytes, pos) ==
    IF pos > h.len THEN [res |-> "Err", err |-> "range", data |-> <<>>, h |-> h]
    ELSE SeqDataReaderSeek_next([h EXCEPT !.hpos = h.start + pos], bytes)

\* next_at that seeks to pos, not to start + pos.
next_at_no_start(h, bytes, pos) ==
    IF pos >= h.len THEN [res |-> "Err", err |-> "range", data |-> <<>>, h |-> h]
    ELSE SeqDataReaderSeek_next([h EXCEPT !.hpos = pos], bytes)

\* SeqDataReaderSeek::next_at of lib.rs: the range check against the cached
\* len, the seek to start + pos, then next.
SeqDataReaderSeek_next_at(h, bytes, pos) ==
    IF pos >= h.len THEN [res |-> "Err", err |-> "range", data |-> <<>>, h |-> h]
    ELSE SeqDataReaderSeek_next([h EXCEPT !.hpos = h.start + pos], bytes)

\* SeqDataReaderSeek::next_at of nonblocking/mod.rs
nb_SeqDataReaderSeek_next_at(h, bytes, pos) ==
    IF pos >= h.len THEN [res |-> "Err", err |-> "range", data |-> <<>>, h |-> h]
    ELSE nb_SeqDataReaderSeek_next([h EXCEPT !.hpos = h.start + pos], bytes)


(***************************************************************************)
(* The state.                                                              *)
(*   variant  the module the program uses: lib.rs or nonblocking/mod.rs    *)
(*   scope    which programs are explored.  "use": a program of one        *)
(*            format, as run_writer_reader::<H> of the example, that       *)
(*            opens the file with the format and header it was created     *)
(*            with.  "probe": a program that builds a file and then tries  *)
(*            one open, with any format and any header.                    *)
(*   disk     the file at the path: whether it exists, and its bytes       *)
(*   twin     the bytes the file would hold had the other module made the  *)
(*            same calls                                                   *)
(*   made     history: the format and header of the create that made the   *)
(*            file and the payloads appended since, each with the way its  *)
(*            writer was obtained                                          *)
(*   w        the SeqDataWriter handle (base: the file when it was made)   *)
(*   r        the SeqDataReader handle (out: the chunks it returned, eos:  *)
(*            what its last next returned, stop: what its first next that  *)
(*            returned no chunk returned, at: the chunks returned before)  *)
(*   s        the SeqDataReaderSeek handle                                 *)
(*   last     the last call and what it returned (n: the position or       *)
(*            length passed, or the number of short reads of an open;      *)
(*            off: the offset returned by next, or the file position of    *)
(*            the seekable reader before the call)                         *)
(*   truncs   the number of truncate_at calls so far                       *)
(*   io       the writes in flight: w2, a second writer handle on the      *)
(*            file; pend[i], the append of handle i between its write of   *)
(*            the length and its write of the data; torn, the append that  *)
(*            was abandoned part-way                                       *)
(*   rx       a call of optional_read_exact on a stream of its own         *)
(* touched records that the file changed while the seekable reader was     *)
(* open.                                                                   *)
(* Handles share no state (each owns its file descriptor), so one reading  *)
(* handle is kept at a time: opening one drops the other.                  *)
(***************************************************************************)
VARIABLES variant, scope, disk, twin, made, w, r, s, last, truncs, io, rx

vars == <<variant, scope, disk, twin, made, w, r, s, last, truncs, io, rx>>

NoWriter == [open |-> FALSE, F |-> H, how |-> "", base |-> <<>>]
NoReader == [open |-> FALSE, F |-> H, pos |-> 0, len |-> 0,
             buf |-> <<>>, fpos |-> 0, out |-> <<>>, eos |-> "", stop |-> "", at |-> 0]
NoSeek == [open |-> FALSE, F |-> H, start |-> 0, len |-> 0,
           hpos |-> 0, touched |-> FALSE]

\* No write in flight: no second writer handle, no append of either handle
\* between its two writes, no append abandoned.
NoPending == [busy |-> FALSE, data |-> <<>>, at |-> 0]
NoIo == [w2 |-> NoWriter, pend |-> <<NoPending, NoPending>>,
         torn |-> [set |-> FALSE, at |-> 0, pos |-> 0]]

\* No call of optional_read_exact on a stream of its own.
NoOut == [res |-> "", err |-> "", data |-> <<>>, used |-> 0]
NoRx == [stream |-> <<>>, n |-> 0, sched |-> <<>>, copy |-> "", out |-> NoOut]

\* The streams, and what the reads of a call do: fail with Interrupted, fail
\* with another error, or return up to so many bytes.
Streams == SeqsUpTo(Bytes, MaxRead)
ReadEvents == {OtherError, Interrupted} \cup 1..(MaxRead - 1)
ReadSchedules == SeqsUpTo(ReadEvents, MaxEvents)

Call(op, F, res, err) ==
    [op |-> op, F |-> F, res |-> res, err |-> err,
     hdr |-> <<>>, n |-> 0, data |-> <<>>, off |-> 0]

Start ==
    /\ variant \in Variants
    /\ disk = [exists |-> FALSE, bytes |-> <<>>]
    /\ twin = <<>>
    /\ made = [F |-> H, header |-> <<>>, log |-> <<>>]
    /\ w = NoWriter
    /\ r = NoReader
    /\ s = NoSeek
    /\ last = Call("", H, "", "")
    /\ truncs = 0
    /\ io = NoIo

Init == Start /\ scope = "use" /\ rx = NoRx
InitProbe == Start /\ scope = "probe" /\ rx = NoRx

\* A program that calls optional_read_exact once, on a stream of its own
\* with a buffer of n >= 1 bytes.
InitRead ==
    /\ Start
    /\ scope = "read"
    /\ \E stream \in Streams, n \in 1..MaxRead, sched \in ReadSchedules :
           rx = [stream |-> stream, n |-> n, sched |-> sched, copy |-> "", out |-> NoOut]

\* The calls that make a handle or act on the path.
PathCalls == {"create", "open", "reader_open", "seek_open", "truncate_at"}
Opens == {"open", "reader_open", "seek_open"}

\* The program goes on after a call unless the call panicked, or failed to
\* give the handle asked for (the unwrap of the example, the ? of a caller).
\* A probe ends with its open.
Running ==
    /\ last.res # "Panic"
    /\ ~(last.res = "Err" /\ last.op \in PathCalls)
    /\ ~(scope = "probe" /\ last.op \in Opens)

\* The creates a program tries: any in a probe; otherwise one with a header
\* of the format's size, on a path that does not exist (the example checks
\* that the path is free before it starts).
CreateInputs ==
    IF scope = "probe" THEN SeqDataFormat \X HeaderInputs
    ELSE IF disk.exists THEN {}
    ELSE {c \in UseFormats \X HeaderInputs : Len(c[2]) = c[1].HEADER_SIZE}

\* What a sequential reader returns from handle state h on: the chunks
\* <<offset, payload>> of its successive next calls, up to the first call
\* that returns None or an error.
RECURSIVE replay(_, _, _)
replay_next(n, bytes, fuel) ==
    IF n.res # "Ok" THEN <<>>
    ELSE <<(<<n.off, n.data>>)>> \o replay(n.h, bytes, fuel - 1)

replay(h, bytes, fuel) ==
    IF fuel = 0 THEN <<>> ELSE replay_next(SeqDataReader_next(h, bytes), bytes, fuel)

\* The sequential reader right after an open under format F.
Opened(F, bytes) ==
    [open |-> TRUE, F |-> F, pos |-> 0, len |-> Len(bytes) - (Len(F.MAGIC) + F.HEADER_SIZE),
     buf |-> <<>>, fpos |-> Len(F.MAGIC) + F.HEADER_SIZE, out |-> <<>>, eos |-> "",
     stop |-> "", at |-> 0]

Chunks(F, bytes) == replay(Opened(F, bytes), bytes, Len(bytes))
OffsetsOf(chunks) == {chunks[i][1] : i \in 1..Len(chunks)}
Offsets(F, bytes) == OffsetsOf(Chunks(F, bytes))

\* The positions a program passes to next_at: the offsets a replay gives,
\* one position inside a chunk, and the first two positions out of range.
Positions == Offsets(s.F, disk.bytes) \cup {1, s.len, s.len + 1}

\* The formats and headers a program opens the file with.
OpenFormats == IF scope = "probe" THEN SeqDataFormat ELSE {made.F}
OpenHeaders == IF scope = "probe" THEN HeaderInputs ELSE {made.header}

\* The open handles see the file change.
Touch(h, changed) == IF h.open /\ changed THEN [h EXCEPT !.touched = TRUE] ELSE h

(***************************************************************************)
(* Writer                                                                  *)
(***************************************************************************)
create ==
    /\ Running
    /\ \E in \in CreateInputs :
        \E c \in {IF variant = "blocking" THEN SeqDataWriter_create(in[1], disk, in[2])
                  ELSE nb_SeqDataWriter_create(in[1], disk, in[2])},
           t \in {IF variant = "blocking" THEN nb_SeqDataWriter_create(in[1], disk, in[2])
                  ELSE SeqDataWriter_create(in[1], disk, in[2])} :
            /\ last' = [Call("create", in[1], c.res, c.err) EXCEPT !.hdr = in[2]]
            /\ disk' = [exists |-> c.exists, bytes |-> c.bytes]
            /\ IF c.res = "Ok"
               THEN /\ twin' = t.bytes
                    /\ made' = [F |-> in[1], header |-> in[2], log |-> <<>>]
                    /\ w' = [open |-> TRUE, F |-> in[1], how |-> "create", base |-> c.bytes]
               ELSE UNCHANGED <<twin, made, w>>
    /\ UNCHANGED <<variant, scope, io, rx, r, s, truncs>>

open ==
    /\ Running
    /\ \E F \in OpenFormats, header \in OpenHeaders, sched \in Schedules :
        \E o \in {IF variant = "blocking" THEN SeqDataWriter_open(F, disk, header, sched)
                  ELSE nb_SeqDataWriter_open(F, disk, header, sched)} :
            /\ last' = [Call("open", F, o.res, o.err) EXCEPT
                           !.hdr = header, !.data = o.header, !.n = Len(sched)]
            /\ IF o.res = "Ok"
               THEN w' = [open |-> TRUE, F |-> F, how |-> "open", base |-> disk.bytes]
               ELSE UNCHANGED w
    /\ UNCHANGED <<variant, scope, io, rx, disk, twin, made, r, s, truncs>>

\* SeqDataWriter::append: the file is open in append mode, so the chunk
\* lands at the end of the file.  Appends happen while no reading handle is
\* open, as in the scopes of the example: a writer concurrent with a reader
\* is outside the crate's contract.
writer_append ==
    /\ Running
    /\ w.open
    /\ ~r.open /\ ~s.open
    /\ Len(made.log) < MaxChunks
    /\ \E data \in Payloads :
        \E chunk \in {IF variant = "blocking" THEN append(data) ELSE write_chunk(data)},
           other \in {IF variant = "blocking" THEN write_chunk(data) ELSE append(data)} :
            /\ disk' = [disk EXCEPT !.bytes = write_all(w, disk.bytes, chunk)]
            /\ twin' = write_all(w, twin, other)
            /\ made' = [made EXCEPT !.log = Append(made.log, [p |-> data, via |-> w.how])]
            /\ last' = [Call("append", w.F, "Ok", "") EXCEPT !.data = data]
    /\ UNCHANGED <<variant, scope, io, rx, w, r, s, truncs>>

\* An append that is abandoned after it wrote k bytes of its chunk, at least
\* one and not all: write_all returned an error part-way, or the future of
\* the async append was dropped between or inside its two write_all.  The
\* handle stays usable.  torn records where: after how many complete chunks
\* and at which file position.
append_abandoned ==
    /\ Running
    /\ w.open
    /\ ~r.open /\ ~s.open
    /\ ~io.torn.set
    /\ Len(made.log) < MaxChunks
    /\ \E data \in Payloads :
        \E chunk \in {IF variant = "blocking" THEN append(data) ELSE write_chunk(data)},
           other \in {IF variant = "blocking" THEN write_chunk(data) ELSE append(data)} :
            \E k \in 1..(Len(chunk) - 1) :
                /\ disk' = [disk EXCEPT !.bytes = write_all(w, disk.bytes, Take(chunk, k))]
                /\ twin' = write_all(w, twin, Take(other, k))
                /\ io' = [io EXCEPT !.torn = [set |-> TRUE, at |-> Len(made.log),
                                              pos |-> Len(disk.bytes)]]
                /\ last' = [Call("append", w.F, "Err", "abandoned") EXCEPT
                               !.data = data, !.n = k]
    /\ UNCHANGED <<variant, scope, rx, made, w, r, s, truncs>>

\* truncate_at of lib.rs and ioutils.rs: a new handle on the path, set_len.
\* It is maintenance, done while no sequential reader is replaying the file;
\* a seekable reader may be open.
truncate_at ==
    /\ Running
    /\ truncs < MaxTruncs
    /\ ~r.open
    /\ \E len \in 0..(Len(disk.bytes) + 1) :
        IF ~disk.exists
        THEN /\ last' = [Call("truncate_at", H, "Err", "notfound") EXCEPT !.n = len]
             /\ UNCHANGED <<disk, twin, s>>
        ELSE /\ disk' = [disk EXCEPT !.bytes = set_len(disk.bytes, len)]
             /\ twin' = set_len(twin, len)
             /\ last' = [Call("truncate_at", H, "Ok", "") EXCEPT !.n = len]
             /\ s' = Touch(s, len # Len(disk.bytes))
    /\ truncs' = truncs + 1
    /\ UNCHANGED <<variant, scope, io, rx, made, w, r>>

(***************************************************************************)
(* Sequential reader                                                       *)
(***************************************************************************)
reader_new ==
    /\ Running
    /\ \E F \in OpenFormats, sched \in Schedules :
        \E o \in {IF variant = "blocking" THEN reader_open(F, disk, sched)
                  ELSE nb_reader_open(F, disk, sched)} :
            /\ last' = [Call("reader_open", F, o.res, o.err) EXCEPT
                           !.data = o.header, !.n = Len(sched)]
            /\ IF o.res = "Ok"
               THEN /\ r' = [open |-> TRUE, F |-> F, pos |-> 0, len |-> o.len,
                             buf |-> <<>>, fpos |-> o.used, out |-> <<>>, eos |-> "",
                             stop |-> "", at |-> 0]
                    /\ s' = NoSeek
               ELSE UNCHANGED <<r, s>>
    /\ UNCHANGED <<variant, scope, io, rx, disk, twin, made, w, truncs>>

reader_next ==
    /\ Running
    /\ r.open
    /\ \E n \in {IF variant = "blocking" THEN SeqDataReader_next(r, disk.bytes)
                   ELSE nb_SeqDataReader_next(r, disk.bytes)} :
           /\ r' = [n.h EXCEPT !.eos = n.res,
                               !.out = IF n.res = "Ok"
                                       THEN Append(r.out, <<n.off, n.data>>) ELSE r.out,
                               !.stop = IF r.stop = "" /\ n.res # "Ok" THEN n.res ELSE r.stop,
                               !.at = IF r.stop = "" /\ n.res # "Ok" THEN Len(r.out) ELSE r.at]
           /\ last' = [Call("next", r.F, n.res, n.err) EXCEPT
                          !.data = n.data, !.off = n.off]
    /\ UNCHANGED <<variant, scope, io, rx, disk, twin, made, w, s, truncs>>

\* What the reads of a next() with a failing read do: the reads of the
\* length prefix return up to 3 of its bytes and then fail, or are all
\* made; the reads of the payload fail, or are all made; one of the two
\* fails.
PrefixFaults == {<<OtherError>>} \cup {<<k, OtherError>> : k \in 1..(PrefixLength - 1)}
ReadFaults ==
    {<<ps, <<>>>> : ps \in PrefixFaults} \cup {<< <<>>, <<OtherError>> >>}

\* SeqDataReader::next with a read that fails with an I/O error.
reader_next_failing ==
    /\ Running
    /\ r.open
    /\ \E f \in ReadFaults :
        \E n \in {IF variant = "blocking" THEN SeqDataReader_next_io(r, disk.bytes, f[1], f[2])
                  ELSE nb_SeqDataReader_next_io(r, disk.bytes, f[1], f[2])} :
           /\ r' = [n.h EXCEPT !.eos = n.res,
                               !.out = IF n.res = "Ok"
                                       THEN Append(r.out, <<n.off, n.data>>) ELSE r.out,
                               !.stop = IF r.stop = "" /\ n.res # "Ok" THEN n.res ELSE r.stop,
                               !.at = IF r.stop = "" /\ n.res # "Ok" THEN Len(r.out) ELSE r.at]
           /\ last' = [Call("next", r.F, n.res, n.err) EXCEPT
                          !.data = n.data, !.off = n.off]
    /\ UNCHANGED <<variant, scope, io, rx, disk, twin, made, w, s, truncs>>

(***************************************************************************)
(* Seekable reader                                                         *)
(***************************************************************************)
seek_new ==
    /\ Running
    /\ \E F \in OpenFormats, sched \in Schedules :
        \E o \in {IF variant = "blocking" THEN reader_open(F, disk, sched)
                  ELSE nb_reader_open(F, disk, sched)} :
            /\ last' = [Call("seek_open", F, o.res, o.err) EXCEPT
                           !.data = o.header, !.n = Len(sched)]
            /\ IF o.res = "Ok"
               THEN /\ s' = [open |-> TRUE, F |-> F, start |-> o.used,
                             len |-> o.len, hpos |-> o.used, touched |-> FALSE]
                    /\ r' = NoReader
               ELSE UNCHANGED <<r, s>>
    /\ UNCHANGED <<variant, scope, io, rx, disk, twin, made, w, truncs>>

seek_next ==
    /\ Running
    /\ s.open
    /\ \E n \in {IF variant = "blocking" THEN SeqDataReaderSeek_next(s, disk.bytes)
                   ELSE nb_SeqDataReaderSeek_next(s, disk.bytes)} :
           /\ s' = n.h
           /\ last' = [Call("seek_next", s.F, n.res, n.err) EXCEPT
                          !.data = n.data, !.off = s.hpos]
    /\ UNCHANGED <<variant, scope, io, rx, disk, twin, made, w, r, truncs>>

seek_next_at ==
    /\ Running
    /\ s.open
    /\ \E pos \in Positions :
        \E n \in {IF variant = "blocking" THEN SeqDataReaderSeek_next_at(s, disk.bytes, pos)
                  ELSE nb_SeqDataReaderSeek_next_at(s, disk.bytes, pos)} :
            /\ s' = n.h
            /\ last' = [Call("next_at", s.F, n.res, n.err) EXCEPT
                           !.data = n.data, !.n = pos, !.off = s.hpos]
    /\ UNCHANGED <<variant, scope, io, rx, disk, twin, made, w, r, truncs>>

\* The end of the scope of a reading handle (run.rs), which drops it.
drop_reading ==
    /\ Running
    /\ r.open \/ s.open
    /\ r' = NoReader
    /\ s' = NoSeek
    /\ last' = Call("drop", H, "", "")
    /\ UNCHANGED <<variant, scope, io, rx, disk, twin, made, w, truncs>>

Next ==
    \/ create
    \/ open
    \/ writer_append
    \/ reader_new
    \/ reader_next
    \/ seek_new
    \/ seek_next
    \/ seek_next_at
    \/ drop_reading

NextProbe ==
    \/ create
    \/ open
    \/ writer_append
    \/ truncate_at
    \/ reader_new
    \/ seek_new

\* Programs that also cut the file, and do not reopen it for writing.
NextCut ==
    \/ create
    \/ writer_append
    \/ truncate_at
    \/ reader_new
    \/ reader_next
    \/ seek_new
    \/ seek_next
    \/ seek_next_at
    \/ drop_reading

(***************************************************************************)
(* Two writer handles on one file.  Handle 1 is the handle of create,      *)
(* handle 2 comes from open; they belong to two threads or two tasks.  An  *)
(* append is its two write_all, of the length and of the data, and the     *)
(* writes of the two handles interleave.  Each write_all lands whole at    *)
(* the end of the file, both handles being in append mode.                 *)
(***************************************************************************)
Handles == {1, 2}
Handle(i) == IF i = 1 THEN w ELSE io.w2

open_second ==
    /\ Running
    /\ w.open /\ ~io.w2.open
    /\ \E o \in {IF variant = "blocking" THEN SeqDataWriter_open(made.F, disk, made.header, <<>>)
                  ELSE nb_SeqDataWriter_open(made.F, disk, made.header, <<>>)} :
           /\ last' = [Call("open", made.F, o.res, o.err) EXCEPT
                          !.hdr = made.header, !.data = o.header]
           /\ IF o.res = "Ok"
              THEN io' = [io EXCEPT !.w2 = [open |-> TRUE, F |-> made.F, how |-> "open",
                                           base |-> disk.bytes]]
              ELSE UNCHANGED io
    /\ UNCHANGED <<variant, scope, rx, disk, twin, made, w, r, s, truncs>>

\* The first write_all of an append: the length.
append_length ==
    /\ Running
    /\ \E i \in Handles, data \in Payloads :
        /\ Handle(i).open
        /\ ~io.pend[i].busy
        /\ Len(made.log) + Cardinality({k \in Handles : io.pend[k].busy}) < MaxChunks
        /\ \E chunk \in {IF variant = "blocking" THEN append(data) ELSE write_chunk(data)},
              other \in {IF variant = "blocking" THEN write_chunk(data) ELSE append(data)} :
               /\ disk' = [disk EXCEPT !.bytes = write_all(Handle(i), disk.bytes, Take(chunk, 4))]
               /\ twin' = write_all(Handle(i), twin, Take(other, 4))
               /\ io' = [io EXCEPT !.pend[i] = [busy |-> TRUE, data |-> Drop(chunk, 4),
                                                at |-> Len(disk.bytes)]]
               /\ last' = [Call("append_length", Handle(i).F, "Ok", "") EXCEPT
                              !.data = data, !.n = i]
    /\ UNCHANGED <<variant, scope, rx, made, w, r, s, truncs>>

\* The second write_all of an append: the data; the append returns.
append_data ==
    /\ Running
    /\ \E i \in Handles :
        /\ io.pend[i].busy
        /\ disk' = [disk EXCEPT !.bytes = write_all(Handle(i), disk.bytes, io.pend[i].data)]
        /\ twin' = write_all(Handle(i), twin, io.pend[i].data)
        /\ made' = [made EXCEPT !.log = Append(made.log, [p |-> io.pend[i].data,
                                                          via |-> Handle(i).how])]
        /\ io' = [io EXCEPT !.pend[i] = NoPending]
        /\ last' = [Call("append", Handle(i).F, "Ok", "") EXCEPT
                       !.data = io.pend[i].data, !.n = i]
    /\ UNCHANGED <<variant, scope, rx, w, r, s, truncs>>

NextRace ==
    \/ create
    \/ open_second
    \/ append_length
    \/ append_data

(***************************************************************************)
(* optional_read_exact on a stream of its own                              *)
(***************************************************************************)
\* The copy of the module in use: lib.rs or nonblocking/mod.rs.
call_optional_read_exact ==
    /\ rx.copy = ""
    /\ rx' = [rx EXCEPT
                 !.copy = IF variant = "blocking" THEN "lib" ELSE "nonblocking",
                 !.out = IF variant = "blocking"
                         THEN optional_read_exact(rx.stream, rx.n, rx.sched)
                         ELSE nb_optional_read_exact(rx.stream, rx.n, rx.sched)]
    /\ UNCHANGED <<variant, scope, disk, twin, made, w, r, s, last, truncs, io>>

\* The copy of ioutils.rs.
call_ioutils_optional_read_exact ==
    /\ rx.copy = ""
    /\ rx' = [rx EXCEPT !.copy = "ioutils",
                        !.out = ioutils_optional_read_exact(rx.stream, rx.n, rx.sched)]
    /\ UNCHANGED <<variant, scope, disk, twin, made, w, r, s, last, truncs, io>>

NextRead ==
    \/ call_optional_read_exact
    \/ call_ioutils_optional_read_exact

\* Programs one of whose appends is abandoned part-way.
NextTorn ==
    \/ create
    \/ open
    \/ writer_append
    \/ append_abandoned
    \/ reader_new
    \/ reader_next
    \/ drop_reading

\* Programs whose reader meets reads that fail.
NextFault ==
    \/ create
    \/ writer_append
    \/ reader_new
    \/ reader_next
    \/ reader_next_failing
    \/ drop_reading

Spec == Init /\ [][Next]_vars

SpecFault == Init /\ [][NextFault]_vars

SpecTorn == Init /\ [][NextTorn]_vars

SpecRead == InitRead /\ [][NextRead]_vars

SpecRace == Init /\ [][NextRace]_vars

SpecCut == Init /\ [][NextCut]_vars

SpecProbe == InitProbe /\ [][NextProbe]_vars


(***************************************************************************)
(* Properties.                                                             *)
(***************************************************************************)
\* The offset of the i-th payload of a log: o1 = 0, o(i+1) = o(i) + 4 + len(p(i)).
RECURSIVE offset_of(_, _)
offset_of(log, i) ==
    IF i = 1 THEN 0 ELSE offset_of(log, i - 1) + 4 + Len(log[i - 1].p)

\* out is the first chunks of the log, with the running-sum offsets.
FirstOf(out, log) ==
    /\ Len(out) <= Len(log)
    /\ \A i \in 1..Len(out) : out[i] = <<offset_of(log, i), log[i].p>>

ViaCreate == \A i \in 1..Len(made.log) : made.log[i].via = "create"

\* C1 (round trip): a sequential reader opened on a file made by create and
\* appends p1..pn through the created writer returns (o1,p1)..(on,pn) in
\* order, o1 = 0 and o(i+1) = o(i) + 4 + len(p(i)), then None: what it has
\* returned is always the first chunks of the log, it never returns an
\* error, and it returns None only after all n chunks.
C1_RoundTrip ==
    (r.open /\ ViaCreate) =>
        /\ FirstOf(r.out, made.log)
        /\ r.eos # "Err"
        /\ r.stop \in {"", "None"}
        /\ (r.stop = "None" => r.at = Len(made.log) /\ Len(r.out) = Len(made.log))

\* Two payloads, an empty one among them, were read back and None followed.
C1_Witness ==
    /\ r.open /\ ViaCreate
    /\ Len(made.log) >= 2
    /\ \E i, j \in 1..Len(made.log) : made.log[i].p = <<>> /\ made.log[j].p # <<>>
    /\ Len(r.out) = Len(made.log)
    /\ last.op = "next" /\ last.res = "None"


\* C2 (offset addressability): on an unmodified file, next_at(o) for an
\* offset o that a sequential replay of the file returns gives the payload
\* the replay returns with o, whatever calls the seekable handle served
\* before.
C2_OffsetAddressable ==
    (last.op = "next_at" /\ ~s.touched /\ last.n \in Offsets(s.F, disk.bytes)) =>
        /\ last.res = "Ok"
        /\ \E i \in 1..Len(Chunks(s.F, disk.bytes)) :
               Chunks(s.F, disk.bytes)[i] = <<last.n, last.data>>

\* next_at went back to an earlier chunk of a file of two chunks or more:
\* the handle stood past the chunk it was asked for.
C2_Witness ==
    /\ last.op = "next_at" /\ last.res = "Ok" /\ ~s.touched
    /\ last.n \in Offsets(s.F, disk.bytes)
    /\ Len(Chunks(s.F, disk.bytes)) >= 2
    /\ Len(s.F.MAGIC) > 0
    /\ last.off > s.start + last.n


\* The magic and the header a file holds, read as format F.
StoredMagic(F, bytes) == Take(bytes, Len(F.MAGIC))
StoredHeader(F, bytes) == SubSeq(bytes, Len(F.MAGIC) + 1, Len(F.MAGIC) + F.HEADER_SIZE)

\* C3 (open for append is strict equality): SeqDataWriter::open succeeds
\* only when the magic in the file is the format's magic and the header in
\* the file is the header supplied.
C3_StrictOpen ==
    (last.op = "open" /\ last.res = "Ok") =>
        /\ StoredMagic(last.F, disk.bytes) = last.F.MAGIC
        /\ StoredHeader(last.F, disk.bytes) = last.hdr


\* C4 (magic mismatch rejection), as stated: an open under a format whose
\* non-empty magic differs from the magic of the format the file was
\* created under does not succeed.
C4_MagicMismatch ==
    (/\ last.op \in Opens /\ disk.exists /\ truncs = 0
     /\ last.F.MAGIC # <<>> /\ last.F.MAGIC # made.F.MAGIC) =>
        last.res # "Ok"

\* C4, amended: such an open does not succeed when the file does not start
\* with the magic of the format it is opened under.
C4_MagicNotInFile ==
    (/\ last.op \in Opens /\ disk.exists
     /\ last.F.MAGIC # <<>> /\ last.F.MAGIC # made.F.MAGIC
     /\ StoredMagic(last.F, disk.bytes) # last.F.MAGIC) =>
        last.res # "Ok"

\* An open under another format, both magics non-empty, was rejected for
\* its magic.
C4_Witness ==
    /\ last.op \in Opens /\ disk.exists
    /\ last.F.MAGIC # <<>> /\ made.F.MAGIC # <<>> /\ last.F.MAGIC # made.F.MAGIC
    /\ StoredMagic(last.F, disk.bytes) # last.F.MAGIC
    /\ last.res = "Err" /\ last.err = "magic"


\* The layout: the bytes of the first i chunks of a log, each a 4-byte
\* little-endian length then the payload; the whole file of a log.
RECURSIVE Encoded(_, _)
Encoded(log, i) ==
    IF i = 0 THEN <<>> ELSE Encoded(log, i - 1) \o to_le_bytes(Len(log[i].p)) \o log[i].p

WellFormed == made.F.MAGIC \o made.header \o Encoded(made.log, Len(made.log))

\* The file position where the i-th chunk of the log starts.
ChunkStart(i) == Len(made.F.MAGIC) + Len(made.header) + offset_of(made.log, i)

\* The file is the file of the N chunks of the log, cut strictly inside the
\* N-th chunk: at least one byte of its length field is there, and not all
\* of the chunk.
CutInsideLast ==
    /\ disk.exists
    /\ Len(made.log) >= 1
    /\ IsPrefix(disk.bytes, WellFormed)
    /\ Len(disk.bytes) > ChunkStart(Len(made.log))
    /\ Len(disk.bytes) < Len(WellFormed)

\* C5 (truncated file detection): a sequential reader opened on a file of N
\* chunks cut strictly inside the N-th chunk returns the first N-1 chunks
\* with their offsets and payloads and no more, and the first call that
\* returns no chunk is the N-th, which returns an error and not None.
C5_TruncationDetected ==
    (r.open /\ CutInsideLast) =>
        /\ FirstOf(r.out, made.log)
        /\ Len(r.out) <= Len(made.log) - 1
        /\ r.stop \in {"", "Err"}
        /\ (r.stop = "Err" => r.at = Len(made.log) - 1)

\* Two chunks, the file cut inside the second: the reader returned the
\* first chunk and then an error.
C5_Witness ==
    /\ r.open /\ CutInsideLast
    /\ Len(made.log) = 2
    /\ Len(r.out) = 1
    /\ r.stop = "Err" /\ r.at = 1
    /\ last.op = "next" /\ last.res = "Err"


\* The reader has returned every chunk of a file that ends on a chunk
\* boundary.
ConsumedAll == r.open /\ disk.bytes = WellFormed /\ Len(r.out) = Len(made.log)

\* C6 (end-of-stream signal): once a sequential reader has returned every
\* chunk of a file that ends on a chunk boundary, the next() it is about to
\* make returns None, and every next() it has made since returned None and
\* no error.
C6_EndOfStream ==
    ConsumedAll =>
        /\ (IF variant = "blocking" THEN SeqDataReader_next(r, disk.bytes)
            ELSE nb_SeqDataReader_next(r, disk.bytes)).res = "None"
        /\ r.stop \in {"", "None"}
        /\ (r.stop = "None" => r.eos = "None" /\ r.at = Len(made.log))

\* The blocking reader returned a chunk and then None, and is about to be
\* asked again.
C6_Witness ==
    /\ ConsumedAll
    /\ variant = "blocking"
    /\ Len(made.log) >= 1
    /\ r.stop = "None"
    /\ last.op = "next" /\ last.res = "None"


\* C7 (async/blocking parity of data): the file one module's writer has
\* produced is byte for byte the file the other module's writer produces
\* from the same format, header and payloads, and from any state of a
\* sequential reader on it the two modules' next() return the same result
\* and leave the same reader.
C7_DataParity ==
    /\ twin = disk.bytes
    /\ r.open => SeqDataReader_next(r, disk.bytes) = nb_SeqDataReader_next(r, disk.bytes)

\* The async reader returned the second chunk of a file the async writer
\* wrote.
C7_Witness ==
    /\ variant = "async"
    /\ twin = disk.bytes
    /\ Len(made.log) = 2
    /\ r.open /\ Len(r.out) = 2
    /\ last.op = "next" /\ last.res = "Ok"


\* C8 (async/blocking parity of error conditions): from any state of a
\* seekable reader, next() and next_at(pos) of the two modules have the same
\* outcome, a payload or an error in the same cases.
C8_SeekParity ==
    s.open =>
        /\ SeqDataReaderSeek_next(s, disk.bytes).res = nb_SeqDataReaderSeek_next(s, disk.bytes).res
        /\ \A pos \in Positions :
               SeqDataReaderSeek_next_at(s, disk.bytes, pos).res
                   = nb_SeqDataReaderSeek_next_at(s, disk.bytes, pos).res


\* C9 (header returned verbatim): on the file of a create with header H and
\* any appends, not cut, every open under the format of the create (the
\* writer's with H), all its reads returning in full, succeeds and returns H.
C9_HeaderVerbatim ==
    (/\ last.op \in Opens /\ disk.exists /\ truncs = 0
     /\ last.F = made.F /\ last.n = 0
     /\ (last.op = "open" => last.hdr = made.header)) =>
        /\ last.res = "Ok"
        /\ last.data = made.header


\* C10 (reopen and append): the appends through a handle that open returned
\* leave every byte the file had at the open unchanged, and a sequential
\* reader opened on a file whose chunks came through the created handle and
\* then through reopened ones returns them all in order with the running-sum
\* offsets, then None.
C10_ReopenAppend ==
    /\ (w.open /\ w.how = "open") => IsPrefix(w.base, disk.bytes)
    /\ (r.open /\ ~ViaCreate) =>
           /\ FirstOf(r.out, made.log)
           /\ r.stop \in {"", "None"}
           /\ (r.stop = "None" => r.at = Len(made.log))

\* A chunk through the created handle, a chunk through a reopened one, both
\* read back, then None.
C10_Witness ==
    /\ w.open /\ w.how = "open"
    /\ Len(w.base) < Len(disk.bytes)
    /\ Len(made.log) = 2
    /\ made.log[1].via = "create" /\ made.log[2].via = "open"
    /\ r.open /\ Len(r.out) = 2
    /\ last.op = "next" /\ last.res = "None"


\* C11 (append effect): every append that succeeds extends the file by
\* exactly 4 + len(data) bytes, the 4-byte little-endian len(data) then
\* data, put at the previous end of the file, and changes no byte the file
\* had.
C11_AppendEffect ==
    [][writer_append =>
          /\ Len(disk'.bytes) = Len(disk.bytes) + 4 + Len(last'.data)
          /\ Take(disk'.bytes, Len(disk.bytes)) = disk.bytes
          /\ Drop(disk'.bytes, Len(disk.bytes))
                 = to_le_bytes(Len(last'.data)) \o last'.data]_vars

\* A non-empty payload appended through a reopened handle to a file that
\* held a chunk.
C11_Witness ==
    /\ last.op = "append" /\ last.res = "Ok" /\ last.data # <<>>
    /\ w.how = "open"
    /\ Len(made.log) = 2
    /\ Len(disk.bytes) = Len(w.base) + 4 + Len(last.data)


\* C12 (partial append detection): once an append was abandoned part-way,
\* after io.torn.at complete chunks, every sequential reader opened later,
\* whatever was appended since, returns those chunks and no more, and its
\* first call that returns no chunk returns an error, after exactly those
\* chunks.
C12_TornDetected ==
    (r.open /\ io.torn.set) =>
        /\ Len(r.out) <= io.torn.at
        /\ FirstOf(r.out, made.log)
        /\ r.stop \in {"", "Err"}
        /\ (r.stop = "Err" => r.at = io.torn.at)


\* C13 (size validation): a create or an open of the writer with a header
\* whose length is not HEADER_SIZE returns the size error and touches
\* nothing: no file appears at a path that did not exist, and a file that
\* exists keeps its bytes and its length.
C13_SizeValidation ==
    [][(create \/ open) /\ Len(last'.hdr) # last'.F.HEADER_SIZE =>
          /\ last'.res = "Err" /\ last'.err = "size"
          /\ disk' = disk
          /\ w' = w]_vars

\* A create with a header too long, on a path that does not exist.
C13_Witness ==
    /\ last.op = "create" /\ last.res = "Err" /\ last.err = "size"
    /\ Len(last.hdr) > last.F.HEADER_SIZE
    /\ ~disk.exists


\* C14 (exclusive create): a create on a path that exists fails and leaves
\* the file's bytes and length as they were; a create on a path that does
\* not exist, with a header of HEADER_SIZE bytes, succeeds and the file is
\* then exactly the magic followed by the header.
C14_ExclusiveCreate ==
    [][create =>
          /\ disk.exists => (last'.res = "Err" /\ disk' = disk)
          /\ (~disk.exists /\ Len(last'.hdr) = last'.F.HEADER_SIZE) =>
                 /\ last'.res = "Ok"
                 /\ disk'.exists
                 /\ disk'.bytes = last'.F.MAGIC \o last'.hdr]_vars

\* A create with a header of the right size was refused on a file that
\* holds a chunk.
C14_Witness ==
    /\ last.op = "create" /\ last.res = "Err" /\ last.err = "exists"
    /\ Len(last.hdr) = last.F.HEADER_SIZE
    /\ Len(made.log) >= 1
    /\ disk.exists
    /\ Len(disk.bytes) >= Len(made.F.MAGIC) + Len(made.header) + 4


\* C15 (out-of-range rejection): next_at(pos) with pos >= len, the length
\* of the payload domain the handle cached at open, returns the range error
\* and leaves the handle's file position where it was.
C15_OutOfRange ==
    (last.op = "next_at" /\ last.n >= s.len) =>
        /\ last.res = "Err" /\ last.err = "range"
        /\ s.hpos = last.off

\* The file grew after the open: next_at at the cached len was refused
\* though the file has a byte there, and the handle, which had read a chunk,
\* stayed where it was.
C15_Witness ==
    /\ last.op = "next_at" /\ last.n = s.len
    /\ last.res = "Err" /\ last.err = "range"
    /\ s.touched
    /\ s.start + last.n < Len(disk.bytes)
    /\ s.hpos > s.start


\* C16 (minimum-length check): an open of a sequential or a seekable reader
\* on a file shorter than len(MAGIC) + HEADER_SIZE fails with an error, and
\* after an open that succeeds len() is the length of the file at the open
\* minus len(MAGIC) + HEADER_SIZE.
C16_MinimumLength ==
    (last.op \in {"reader_open", "seek_open"} /\ disk.exists) =>
        /\ Len(disk.bytes) < Len(last.F.MAGIC) + last.F.HEADER_SIZE =>
               (last.res = "Err" /\ last.err = "short")
        /\ last.res = "Ok" =>
               /\ last.op = "reader_open" =>
                      (r.open /\ r.len = Len(disk.bytes) - (Len(last.F.MAGIC) + last.F.HEADER_SIZE))
               /\ last.op = "seek_open" =>
                      (s.open /\ s.len = Len(disk.bytes) - (Len(last.F.MAGIC) + last.F.HEADER_SIZE))

\* The file was cut below its magic and header; the open of a seekable
\* reader under the format of the file failed for its length.
C16_Witness ==
    /\ last.op = "seek_open" /\ last.res = "Err" /\ last.err = "short"
    /\ last.F = made.F
    /\ truncs = 1
    /\ disk.exists
    /\ 0 < Len(disk.bytes) /\ Len(disk.bytes) < Len(made.F.MAGIC) + made.F.HEADER_SIZE


\* What the reads of a schedule return at most, over its first j entries.
RECURSIVE SumReads(_, _)
SumReads(sched, j) ==
    IF j = 0 THEN 0
    ELSE SumReads(sched, j - 1) + (IF sched[j] >= 1 THEN sched[j] ELSE 0)

\* The entries of a schedule before its first OtherError: all of them when
\* it has none.
Before(sched) ==
    IF \E i \in 1..Len(sched) : sched[i] = OtherError
    THEN (CHOOSE i \in 1..Len(sched) :
              sched[i] = OtherError /\ \A k \in 1..(i - 1) : sched[k] # OtherError) - 1
    ELSE Len(sched)

\* The result for a stream that holds avail bytes when no read fails with
\* an error other than Interrupted.
Trichotomy(out, stream, n) ==
    /\ out.res = "None" <=> Len(stream) = 0
    /\ (out.res = "Err" /\ out.err = "eof") <=> (0 < Len(stream) /\ Len(stream) < n)
    /\ out.res = "Ok" <=> Len(stream) >= n
    /\ out.res = "Ok" => out.data = Take(stream, n)
    /\ out.res \in {"None", "Err", "Ok"}

ReadFailed(out) == out.res = "Err" /\ out.err = "io"

\* The call gets to the end of what it does before the first OtherError of
\* its schedule: the reads before it return the n bytes, or one of them is
\* made when the stream has nothing left and returns 0.
EndsBeforeError(stream, n, sched) ==
    \/ Len(stream) >= n /\ SumReads(sched, Before(sched)) >= n
    \/ /\ Len(stream) < n
       /\ \E i \in 1..Before(sched) :
              sched[i] >= 1 /\ SumReads(sched, i - 1) >= Len(stream)

\* C17 (exact-read trichotomy): for a buffer of n >= 1 bytes, whatever
\* partial reads and Interrupted errors the stream gives, each copy of
\* optional_read_exact returns None exactly when the stream ended before any
\* byte, Err(UnexpectedEof) exactly when it ended after 1 to n-1 bytes, and
\* Ok with the n bytes exactly when it held n; Interrupted changes nothing;
\* another read error is returned as the error when a read meets it, that
\* is unless the call ended before.
C17_Trichotomy ==
    rx.copy # "" =>
        IF Before(rx.sched) = Len(rx.sched) \/ EndsBeforeError(rx.stream, rx.n, rx.sched)
        THEN Trichotomy(rx.out, rx.stream, rx.n)
        ELSE ReadFailed(rx.out)

\* A read was interrupted, the next returned one byte, and the stream ended
\* before the buffer was full.
C17_Witness ==
    /\ rx.copy = "lib"
    /\ rx.sched = <<Interrupted, 1>>
    /\ rx.n = MaxRead
    /\ Len(rx.stream) = rx.n - 1
    /\ rx.out.res = "Err" /\ rx.out.err = "eof"


\* C18 (forward-only cursor): no next() of a sequential reader lowers
\* position(); a next() that returns a chunk (o, p) has o = position()
\* before the call and leaves position() = o + 4 + len(p); a next() that
\* returns None or an error leaves position() as it was.
C18_ForwardOnly ==
    [][reader_next =>
          /\ r'.pos >= r.pos
          /\ last'.res = "Ok" =>
                 (last'.off = r.pos /\ r'.pos = last'.off + 4 + Len(last'.data))
          /\ last'.res # "Ok" => r'.pos = r.pos]_vars

\* On a cut file the reader returned a chunk with a payload, then an error:
\* position() stayed after the chunk.
C18_Witness ==
    /\ r.open
    /\ last.op = "next" /\ last.res = "Err"
    /\ Len(r.out) = 1
    /\ r.out[1][2] # <<>>
    /\ r.pos = r.out[1][1] + 4 + Len(r.out[1][2])


\* The payloads of a replay are the payloads of the log, in some order.
SamePayloads(chunks, log) ==
    /\ Len(chunks) = Len(log)
    /\ \E f \in Permutations(1..Len(log)) : \A i \in 1..Len(log) : chunks[i][2] = log[f[i]].p

\* The bytes the first i chunks of a replay take in the file.
RECURSIVE ChunkBytes(_, _)
ChunkBytes(chunks, i) ==
    IF i = 0 THEN 0 ELSE ChunkBytes(chunks, i - 1) + 4 + Len(chunks[i][2])

\* The replay of the file takes every byte of it.
WholeChunks(F, header, chunks, bytes) ==
    Len(bytes) = Len(F.MAGIC) + Len(header) + ChunkBytes(chunks, Len(chunks))

\* C19 (single logical append): with two writer handles on the file, while
\* an append with a payload is between its two writes nothing has landed
\* after its length prefix, and when no append is in progress the file is a
\* concatenation of complete chunks, those of the appends that returned.
C19_SingleAppend ==
    /\ \A i \in Handles :
           (io.pend[i].busy /\ io.pend[i].data # <<>>) => Len(disk.bytes) = io.pend[i].at + 4
    /\ (disk.exists /\ \A i \in Handles : ~io.pend[i].busy) =>
           /\ SamePayloads(Chunks(made.F, disk.bytes), made.log)
           /\ WholeChunks(made.F, made.header, Chunks(made.F, disk.bytes), disk.bytes)


\* The file is the file of the log cut where its k-th chunk starts.
RolledBackTo(k) == disk.exists /\ disk.bytes = Take(WellFormed, ChunkStart(k))

\* C20 (rollback by truncation): truncate_at of a well-formed file at
\* len(MAGIC) + HEADER_SIZE + o, o the offset of one of its chunks, leaves a
\* file of exactly that length whose bytes are the bytes it had; and a
\* sequential reader opened on the file so cut returns the chunks of offset
\* below o, with their offsets and payloads, and then None.
C20_Rollback ==
    /\ [][(/\ truncate_at
           /\ disk.exists /\ disk.bytes = WellFormed
           /\ \E k \in 1..Len(made.log) : last'.n = ChunkStart(k)) =>
             /\ last'.res = "Ok"
             /\ Len(disk'.bytes) = last'.n
             /\ disk'.bytes = Take(disk.bytes, last'.n)]_vars
    /\ [](\A k \in 1..Len(made.log) :
             (r.open /\ RolledBackTo(k)) =>
                 /\ FirstOf(r.out, made.log)
                 /\ Len(r.out) <= k - 1
                 /\ r.stop \in {"", "None"}
                 /\ (r.stop = "None" => r.at = k - 1))

\* A file of two chunks was cut where the second starts; the reader
\* returned the first chunk and then None.
C20_Witness ==
    /\ truncs = 1
    /\ Len(made.log) = 2
    /\ RolledBackTo(2)
    /\ r.open /\ Len(r.out) = 1
    /\ r.stop = "None" /\ r.at = 1
    /\ last.op = "next" /\ last.res = "None"


\* The file starts with the magic of the open's format and holds at least
\* HEADER_SIZE bytes after it.
MagicAndHeaderStored(F, bytes) ==
    /\ StoredMagic(F, bytes) = F.MAGIC
    /\ Len(bytes) >= Len(F.MAGIC) + F.HEADER_SIZE

\* C21 (magic validation consumes exactly the magic): on a file that starts
\* with the format's magic followed by at least HEADER_SIZE bytes, however
\* short the reads return, every open (the writer's with a header of the
\* format's size) succeeds, and leaves the file positioned at
\* len(MAGIC) + HEADER_SIZE.
C21_MagicExact ==
    (/\ last.op \in Opens /\ disk.exists
     /\ MagicAndHeaderStored(last.F, disk.bytes)
     /\ (last.op = "open" => Len(last.hdr) = last.F.HEADER_SIZE)) =>
        /\ last.res = "Ok"
        /\ (last.op = "reader_open" => r.fpos = Len(last.F.MAGIC) + last.F.HEADER_SIZE)
        /\ (last.op = "seek_open" => s.start = Len(last.F.MAGIC) + last.F.HEADER_SIZE)


\* C22 (no misaligned chunk after an error): every chunk a sequential
\* reader has returned, also after one of its next() calls returned an
\* error, is a chunk that was appended to the file, with its offset and its
\* payload.
C22_NoMisaligned ==
    r.open =>
        \A i \in 1..Len(r.out) :
            \E k \in 1..Len(made.log) :
                r.out[i] = <<offset_of(made.log, k), made.log[k].p>>


\* The file is made of the magic, the header and complete chunks only: the
\* file of the log, whole or cut where one of its chunks starts.
CompleteChunks ==
    /\ disk.exists
    /\ \E k \in 1..(Len(made.log) + 1) : disk.bytes = Take(WellFormed, ChunkStart(k))

\* C23 (cursor bounded by snapshot length): while a sequential reader is
\* open, no call changes the file or what len() returns; len() is the length
\* of the file less the magic and the header, position() <= len() in every
\* state, and after a next() that returned None on a file of complete chunks
\* position() = len().
C23_CursorBounded ==
    /\ [][(r.open /\ r'.open) => (disk' = disk /\ r'.len = r.len)]_vars
    /\ [](r.open =>
             /\ r.len = Len(disk.bytes) - (Len(r.F.MAGIC) + r.F.HEADER_SIZE)
             /\ r.pos <= r.len
             /\ ((r.eos = "None" /\ CompleteChunks) => r.pos = r.len))

====
